---- MODULE Spec2Model ----
(***************************************************************************)
(* Model of scripts/create_dataset/create_dataset_from_nusc.py:            *)
(* create_dataset (the scene / sample / augmentation / box loops) and      *)
(* generate_out_feature (the rasterizer of one box onto the target grid).  *)
(*                                                                         *)
(* Numbers.  World coordinates of boxes and points are integers.  Every    *)
(* value the code derives from them by +, -, *, / is kept exactly, as a    *)
(* reduced fraction <<num, den>> with den > 0 (floating point rounding is  *)
(* not modelled).  Angles are multiples of 45 degrees, yaw = k * 45.       *)
(*                                                                         *)
(* Strings.  A category string is a sequence of symbols, each symbol a     *)
(* word or the separator ".": "vehicle.car" is <<"vehicle", ".", "car">>.  *)
(***************************************************************************)
EXTENDS Integers, Sequences, FiniteSets, TLC

VARIABLES
    args,           \* the arguments of create_dataset
    nusc,           \* nusc.scene: per scene, the number of samples it chains
    pc,             \* position in create_dataset
    err,            \* the exception that ended the run, or "none"
    size,           \* grid size, set by the width == height check
    scene_idx,      \* scenes consumed by "for my_scene in nusc.scene"
    token,          \* sample token of the while loop (0 is '')
    my_sample,      \* the sample nusc.get('sample', token) returned
    augmentation_idx,
    sample_id,
    data_id,
    loads,          \* point clouds / box lists loaded from the dataset
    saved_in,       \* ids of the in_feature files written, in order
    saved_out,      \* ids of the out_feature files written, in order
    boxes,          \* the frame's boxes, annotation order
    box_idx,        \* boxes consumed by "for box_idx, box in enumerate(boxes)"
    pc_points,      \* the frame's point cloud
    out_feature,    \* the target grid, out_feature[i][j][channel]
    conv            \* a single F2I / Pixel2pc conversion

vars == <<args, nusc, pc, err, size, scene_idx, token, my_sample,
          augmentation_idx,
          sample_id, data_id, loads, saved_in, saved_out, boxes, box_idx,
          pc_points, out_feature, conv>>

----------------------------------------------------------------------------
(* Bounds of the model.                                                    *)

MaxSize == 5
MaxBoxes == 2
MaxPts == 4
MaxSamples == 2
MaxAug == 1
MaxEnd == 2

(* Program constants.                                                      *)

FixedRange == 70
DefaultRange == 70
MinPoints == 4
Channels == 8

\* an optional integer (end_id) is <<>> for None and <<n>> for the integer n
None == <<>>
Some(n) == <<n>>

----------------------------------------------------------------------------
(* Exact arithmetic.                                                       *)

Abs(n) == IF n < 0 THEN -n ELSE n

RECURSIVE Gcd(_, _)
Gcd(a, b) == IF b = 0 THEN a ELSE Gcd(b, a % b)

Q(n, d) ==
    LET s == IF d < 0 THEN -1 ELSE 1
        g == Gcd(Abs(n), Abs(d))
    IN  <<(s * n) \div g, (s * d) \div g>>

QI(n) == <<n, 1>>
QSub(a, b) == Q(a[1] * b[2] - b[1] * a[2], a[2] * b[2])
QMul(a, b) == Q(a[1] * b[1], a[2] * b[2])
QDiv(a, b) == Q(a[1] * b[2], a[2] * b[1])
QAbs(a) == <<Abs(a[1]), a[2]>>
QLess(a, b) == a[1] * b[2] < b[1] * a[2]
QLeq(a, b) == a[1] * b[2] <= b[1] * a[2]
QMin(a, b) == IF QLess(b, a) THEN b ELSE a
QFloor(a) == a[1] \div a[2]

RECURSIVE ISqrtFrom(_, _)
ISqrtFrom(n, r) == IF (r + 1) * (r + 1) > n THEN r ELSE ISqrtFrom(n, r + 1)

\* np.linalg.norm of an integer vector (exact when the norm is an integer)
Norm(v) == ISqrtFrom(v[1] * v[1] + v[2] * v[2] + v[3] * v[3], 0)

Dot3(a, b) == a[1] * b[1] + a[2] * b[2] + a[3] * b[3]
Sub3(a, b) == <<a[1] - b[1], a[2] - b[2], a[3] - b[3]>>
Sub2(a, b) == <<a[1] - b[1], a[2] - b[2]>>
Dot2(a, b) == a[1] * b[1] + a[2] * b[2]

\* np.dot of an integer 2-vector with a 2-vector of fractions
Dot2Q(a, v) ==
    Q(a[1] * v[1][1] * v[2][2] + a[2] * v[2][1] * v[1][2], v[1][2] * v[2][2])

RECURSIVE SeqMin(_)
SeqMin(s) ==
    IF Len(s) = 1 THEN s[1]
    ELSE LET m == SeqMin(Tail(s)) IN IF s[1] < m THEN s[1] ELSE m

RECURSIVE SeqMax(_)
SeqMax(s) ==
    IF Len(s) = 1 THEN s[1]
    ELSE LET m == SeqMax(Tail(s)) IN IF s[1] > m THEN s[1] ELSE m

----------------------------------------------------------------------------
(* Classification of a box by its category string (create_dataset).        *)

RECURSIVE Split(_, _)
\* str.split(sep): the tokens between separators; '' gives ['']
Split(s, sep) ==
    IF \A k \in 1..Len(s) : s[k] # sep
    THEN <<s>>
    ELSE LET k == CHOOSE n \in 1..Len(s) :
                      s[n] = sep /\ \A m \in 1..(n - 1) : s[m] # sep
         IN  <<SubSeq(s, 1, k - 1)>> \o Split(SubSeq(s, k + 1, Len(s)), sep)

Word(w) == <<w>>

\* the label of a box name: a label 0..4 passed on to generate_out_feature,
\* "continue" (the box is skipped), or "IndexError" (token 1 is read but
\* the name has a single token)
Classify(name) ==
    LET t == Split(name, ".")
        kind(l) == [kind |-> "label", label |-> l]
    IN  IF t[1] = Word("vehicle")
        THEN IF Len(t) < 2 THEN [kind |-> "IndexError", label |-> 0]
             ELSE IF t[2] = Word("car") THEN kind(1)
             ELSE IF t[2] = Word("bus") THEN kind(2)
             ELSE IF t[2] = Word("truck") THEN kind(2)
             ELSE IF t[2] = Word("construction") THEN kind(2)
             ELSE IF t[2] = Word("emergency") THEN kind(2)
             ELSE IF t[2] = Word("trailer") THEN kind(2)
             ELSE IF t[2] = Word("bicycle") THEN kind(3)
             ELSE IF t[2] = Word("motorcycle") THEN kind(3)
             ELSE kind(0)
        ELSE IF t[1] = Word("human") THEN kind(4)
        ELSE [kind |-> "continue", label |-> 0]

----------------------------------------------------------------------------
(* Boxes.  box.corners() is a 3 x 8 matrix; Corner(cs, k) is its column k. *)

Corner(cs, k) == cs[k + 1]

\* corners2d.T[[2, 3, 7, 6]]
Box2d(cs) ==
    LET xy(k) == <<Corner(cs, k)[1], Corner(cs, k)[2]>>
    IN  <<xy(2), xy(3), xy(7), xy(6)>>

\* box2d.mean(axis=0)
Box2dCenter(b2) ==
    <<Q(b2[1][1] + b2[2][1] + b2[3][1] + b2[4][1], 4),
      Q(b2[1][2] + b2[2][2] + b2[3][2] + b2[4][2], 4)>>

\* np.linalg.norm(box.corners().T[0] - box.corners().T[3])
HeightPt(cs) == Norm(Sub3(Corner(cs, 0), Corner(cs, 3)))

----------------------------------------------------------------------------
(* generate_out_feature and its nested helpers.                            *)

points_in_box(corners, point) ==
    LET p1 == Corner(corners, 0)
        p_x == Corner(corners, 4)
        p_y == Corner(corners, 1)
        p_z == Corner(corners, 3)
        pi == Sub3(p_x, p1)
        pj == Sub3(p_y, p1)
        pk == Sub3(p_z, p1)
        v == Sub3(point, p1)
        iv == Dot3(pi, v)
        jv == Dot3(pj, v)
        kv == Dot3(pk, v)
        mask_x == 0 <= iv /\ iv <= Dot3(pi, pi)
        mask_y == 0 <= jv /\ jv <= Dot3(pj, pj)
        mask_z == 0 <= kv /\ kv <= Dot3(pk, pk)
    IN  mask_x /\ mask_y /\ mask_z

\* np.count_nonzero(points_in_box(box_corners, pc_points[:3, :]))
NumPoints(corners, points) ==
    Cardinality({k \in 1..Len(points) : points_in_box(corners, points[k])})

\* points is a pair of fractions (the cell centre)
points_in_box2d(box2d, points) ==
    LET p1 == box2d[1]
        p_x == box2d[2]
        p_y == box2d[4]
        pi == Sub2(p_x, p1)
        pj == Sub2(p_y, p1)
        v == <<QSub(points[1], QI(p1[1])), QSub(points[2], QI(p1[2]))>>
        iv == Dot2Q(pi, v)
        jv == Dot2Q(pj, v)
        mask_x == QLeq(QI(0), iv) /\ QLeq(iv, QI(Dot2(pi, pi)))
        mask_y == QLeq(QI(0), jv) /\ QLeq(jv, QI(Dot2(pj, pj)))
    IN  mask_x /\ mask_y

F2I_noflip(val, orig, scale) == QFloor(QMul(QI(val - orig), scale))

\* int(np.floor((orig - val) * scale))
F2I(val, orig, scale) == QFloor(QMul(QI(orig - val), scale))

\* out_range - (in_pixel + 0.5) * (2.0 * out_range / in_size)
Pixel2pc(in_pixel, in_size, out_range) ==
    LET res == Q(2 * out_range, in_size)
    IN  QSub(QI(out_range), QMul(Q(2 * in_pixel + 1, 2), res))

\* inv_res = 0.5 * size / 70.
InvRes(sz) == Q(sz, 2 * FixedRange)

\* res = 1.0 / inv_res
Res(sz) == QDiv(QI(1), InvRes(sz))

MaxLength_onecell(sz) == QAbs(Res(sz))

\* max_length = abs(2 * res)
MaxLength(sz) == QAbs(QMul(QI(2), Res(sz)))

SparseSkip_nobus(num_points, label) ==
    \/ num_points < MinPoints /\ label = 0
    \/ num_points < MinPoints /\ label = 1
    \/ num_points < MinPoints /\ label = 3
    \/ num_points < MinPoints /\ label = 4

\* the early returns on num_points < 4
SparseSkip(num_points, label) ==
    \/ num_points < MinPoints /\ label = 0
    \/ num_points < MinPoints /\ label = 1
    \/ num_points < MinPoints /\ label = 2
    \/ num_points < MinPoints /\ label = 3
    \/ num_points < MinPoints /\ label = 4

\* if 0 <= i and i < size and 0 <= j and j < size
InGrid(i, j, sz) == 0 <= i /\ i < sz /\ 0 <= j /\ j < sz

\* the axis scale of the instance offset
AxisScale(max_length, d) ==
    IF QLess(max_length, QAbs(d)) THEN QDiv(max_length, QAbs(d)) ELSE QI(1)

\* math.atan(math.sin(yaw) / math.cos(yaw)), in units of 45 degrees:
\* the representative of yaw modulo 180 degrees in (-90, 90]
NormalizedYaw(yaw) == ((yaw + 1) % 4) - 1

\* math.cos(a) and math.sin(a) for a a multiple of 90 degrees (a = k * 45)
Cos45(a) == CASE a % 8 = 0 -> 1 [] a % 8 = 4 -> -1 [] OTHER -> 0
Sin45(a) == CASE a % 8 = 2 -> 1 [] a % 8 = 6 -> -1 [] OTHER -> 0

CellValues_keepclass(old, box2d_center, gx, gy, max_length, height_pt, label, yaw) ==
    LET dx == QSub(box2d_center[1], gx)
        dy == QSub(box2d_center[2], gy)
        s == QMin(AxisScale(max_length, dx), AxisScale(max_length, dy))
        normalized_yaw == NormalizedYaw(yaw)
    IN  [c \in 0..(Channels - 1) |->
            CASE c = 0 -> 1
              [] c = 1 -> QMul(QMul(dx, QI(-1)), s)
              [] c = 2 -> QMul(QMul(dy, QI(-1)), s)
              [] c = 3 -> 1
              [] c = 4 -> IF old[0] = 1 THEN old[4] ELSE label
              [] c = 5 -> Cos45(normalized_yaw * 2)
              [] c = 6 -> Sin45(normalized_yaw * 2)
              [] c = 7 -> height_pt]

\* the eight assignments out_feature[i, j, 0..7] = ... of a cell in the box
CellValues(old, box2d_center, gx, gy, max_length, height_pt, label, yaw) ==
    LET dx == QSub(box2d_center[1], gx)
        dy == QSub(box2d_center[2], gy)
        x_scale == AxisScale(max_length, dx)
        y_scale == AxisScale(max_length, dy)
        normalized_yaw == NormalizedYaw(yaw)
    IN  [c \in 0..(Channels - 1) |->
            CASE c = 0 -> 1
              [] c = 1 -> QMul(QMul(dx, QI(-1)), QMin(x_scale, y_scale))
              [] c = 2 -> QMul(QMul(dy, QI(-1)), QMin(x_scale, y_scale))
              [] c = 3 -> 1
              [] c = 4 -> label
              [] c = 5 -> Cos45(normalized_yaw * 2)
              [] c = 6 -> Sin45(normalized_yaw * 2)
              [] c = 7 -> height_pt]

IRange_noplus(box2d_left, box2d_right, sz) ==
    <<F2I(box2d_right, FixedRange, InvRes(sz)) - 1,
      F2I(box2d_left, FixedRange, InvRes(sz)) - 1>>

\* range(search_area_right_idx - 1, search_area_left_idx + 1), as the pair
\* <<first, last>> of the indices it yields
IRange(box2d_left, box2d_right, sz) ==
    <<F2I(box2d_right, FixedRange, InvRes(sz)) - 1,
      F2I(box2d_left, FixedRange, InvRes(sz))>>

\* range(search_area_top_idx - 1, search_area_bottom_idx + 1)
JRange(box2d_top, box2d_bottom, sz) ==
    <<F2I(box2d_top, FixedRange, InvRes(sz)) - 1,
      F2I(box2d_bottom, FixedRange, InvRes(sz))>>

\* i is one of the indices range(first, last + 1) yields
InRange(i, r) == r[1] <= i /\ i <= r[2]

\* the body of the two nested loops for the candidate cell (i, j), whose
\* channels are old: the channels of the cell afterwards
VisitCell(ctx, i, j, old) ==
    IF InGrid(i, j, ctx.size)
    THEN LET grid_center_x == Pixel2pc(i, ctx.size, FixedRange)
             grid_center_y == Pixel2pc(j, ctx.size, FixedRange)
             mask == points_in_box2d(ctx.box2d, <<grid_center_x, grid_center_y>>)
         IN  IF mask
             THEN CellValues(old, ctx.box2d_center,
                             grid_center_x, grid_center_y,
                             MaxLength(ctx.size), ctx.height_pt,
                             ctx.label, ctx.yaw)
             ELSE old
    ELSE old

\* for i in range(...): for j in range(...): the body runs once for each
\* (i, j) of the search rectangle and assigns to out_feature[i, j] only.
\* Cell (i, j) of the grid is grid[i + 1][j + 1]
RasterLoop(ctx, grid) ==
    [i1 \in 1..Len(grid) |-> [j1 \in 1..Len(grid) |->
        IF InRange(i1 - 1, ctx.irange) /\ InRange(j1 - 1, ctx.jrange)
        THEN VisitCell(ctx, i1 - 1, j1 - 1, grid[i1][j1])
        ELSE grid[i1][j1]]]

generate_out_feature(sz, box_corners, box2d, box2d_center, points, height_pt, label, yaw, grid) ==
    LET xs == [k \in 1..4 |-> box2d[k][1]]
        ys == [k \in 1..4 |-> box2d[k][2]]
        box2d_left == SeqMin(xs)
        box2d_right == SeqMax(xs)
        box2d_top == SeqMax(ys)
        box2d_bottom == SeqMin(ys)
        num_points == NumPoints(box_corners, points)
        ctx == [size |-> sz, box2d |-> box2d, box2d_center |-> box2d_center,
                height_pt |-> height_pt, label |-> label, yaw |-> yaw,
                irange |-> IRange(box2d_left, box2d_right, sz),
                jrange |-> JRange(box2d_top, box2d_bottom, sz)]
    IN  IF SparseSkip(num_points, label)
        THEN grid
        ELSE RasterLoop(ctx, grid)

\* np.zeros((size, size, 8)); channels 1 and 2 hold fractions
ZeroCell == [c \in 0..(Channels - 1) |-> IF c \in {1, 2} THEN QI(0) ELSE 0]
ZeroGrid(sz) == [i \in 1..sz |-> [j \in 1..sz |-> ZeroCell]]

----------------------------------------------------------------------------
(* Inputs: boxes, point clouds, datasets, arguments.                       *)

\* heading of a box at yaw = d * 45 degrees, as an integer direction vector
DirVec(d) ==
    CASE d % 8 = 0 -> <<1, 0>>   [] d % 8 = 1 -> <<1, 1>>
      [] d % 8 = 2 -> <<0, 1>>   [] d % 8 = 3 -> <<-1, 1>>
      [] d % 8 = 4 -> <<-1, 0>>  [] d % 8 = 5 -> <<-1, -1>>
      [] d % 8 = 6 -> <<0, -1>>  [] d % 8 = 7 -> <<1, -1>>

XSign == <<1, 1, 1, 1, -1, -1, -1, -1>>
YSign == <<1, -1, -1, 1, 1, -1, -1, 1>>
ZSign == <<1, 1, -1, -1, 1, 1, -1, -1>>

\* a box as create_dataset reads it: box.corners(), the yaw of
\* box.orientation.yaw_pitch_roll and box.name.  g = <<cx, cy, cz, hl, hw,
\* hh, d>>: centre, half extents along the heading, across it and up, and
\* the heading d * 45 degrees
MkBox(g, name) ==
    LET u == DirVec(g[7])
        v == <<-u[2], u[1]>>
    IN  [corners |-> [k \in 1..8 |->
                        <<g[1] + g[4] * XSign[k] * u[1] + g[5] * YSign[k] * v[1],
                          g[2] + g[4] * XSign[k] * u[2] + g[5] * YSign[k] * v[2],
                          g[3] + g[6] * ZSign[k]>>],
         yaw |-> g[7],
         name |-> name]

Name2(a, b) == <<a, ".", b>>
Name3(a, b, c) == <<a, ".", b, ".", c>>

AtOrigin == <<0, 0, 0, 20, 20, 1, 0>>
Corner1 == <<35, 35, 0, 25, 25, 1, 4>>
Wide == <<35, 0, 0, 70, 90, 1, 2>>
Diagonal == <<0, 0, 0, 20, 10, 1, 1>>
Outside == <<100, 100, 0, 10, 10, 1, 0>>
AcrossEdge == <<60, 30, 0, 30, 30, 1, 6>>
Sparse == <<-9, 0, 0, 10, 20, 1, 0>>
Thin == <<-50, -50, 0, 10, 5, 1, 5>>
Above == <<0, 0, 5, 20, 20, 1, 3>>

Boxes ==
    {MkBox(AtOrigin, Name2("vehicle", "car")),
     MkBox(AtOrigin, Name2("vehicle", "ego")),
     MkBox(AtOrigin, Name2("movable_object", "barrier")),
     MkBox(AtOrigin, <<"vehicle">>),
     MkBox(Corner1, Name2("vehicle", "truck")),
     MkBox(Wide, Name3("vehicle", "bus", "rigid")),
     MkBox(Diagonal, Name2("vehicle", "motorcycle")),
     MkBox(Diagonal, Name3("human", "pedestrian", "adult")),
     MkBox(Outside, Name2("vehicle", "car")),
     MkBox(AcrossEdge, Name2("vehicle", "trailer")),
     MkBox(Sparse, Name2("vehicle", "ego")),
     MkBox(Sparse, Name2("vehicle", "construction")),
     MkBox(Sparse, <<"human">>),
     MkBox(Thin, Name2("vehicle", "car")),
     MkBox(Thin, Name2("vehicle", "bicycle")),
     MkBox(Above, Name3("vehicle", "emergency", "police"))}

RECURSIVE SeqsUpTo(_, _)
SeqsUpTo(S, n) ==
    IF n = 0 THEN {<<>>}
    ELSE LET shorter == SeqsUpTo(S, n - 1)
         IN  shorter \cup {Append(s, x) : s \in shorter, x \in S}

BoxLists == SeqsUpTo(Boxes, MaxBoxes) \ {<<>>}

\* k points in a row starting at c
Cluster(c, k) == [t \in 1..k |-> <<c[1] + t - 1, c[2], c[3]>>]

\* clusters of MaxPts points, and one of MaxPts - 1 points
Clouds ==
    {Cluster(<<0, 0, 0>>, MaxPts) \o Cluster(<<50, 50, 0>>, MaxPts)
        \o Cluster(<<100, 100, 0>>, MaxPts)
        \o Cluster(<<-56, -50, 0>>, MaxPts - 1)}

Sizes == {MaxSize - 1, MaxSize}

\* the frames of the small dataset the whole run iterates over
DriverBoxLists ==
    {<<>>,
     <<MkBox(Corner1, Name2("vehicle", "car"))>>,
     <<MkBox(AtOrigin, Name3("human", "pedestrian", "adult")),
       MkBox(Corner1, Name2("vehicle", "truck"))>>}

DriverCloud == CHOOSE c \in Clouds : TRUE

GridRanges == {DefaultRange, DefaultRange \div 2}

\* nusc.scene: one or two scenes, each a chain of 1..MaxSamples samples
Datasets == {<<a>> : a \in 1..MaxSamples} \cup {<<a, b>> : a, b \in 1..MaxSamples}

Arguments ==
    [width : Sizes, height : Sizes, grid_range : GridRanges,
     end_id : {None} \cup {Some(n) : n \in 0..MaxEnd}, augmentation_num : 0..MaxAug]

Idle == [stage |-> "idle"]

----------------------------------------------------------------------------
(* create_dataset.                                                         *)

Init ==
    /\ args \in Arguments
    /\ nusc \in Datasets
    /\ pc = "start"
    /\ err = "none"
    /\ size = 0
    /\ scene_idx = 0
    /\ token = 0
    /\ my_sample = 0
    /\ augmentation_idx = 0
    /\ sample_id = 0
    /\ data_id = 0
    /\ loads = 0
    /\ saved_in = <<>>
    /\ saved_out = <<>>
    /\ boxes = <<>>
    /\ box_idx = 0
    /\ pc_points = <<>>
    /\ out_feature = <<>>
    /\ conv = Idle

CheckConfig_accept ==
    /\ pc = "start"
    /\ size' = args.width
    /\ pc' = "scene"
    /\ UNCHANGED <<my_sample, args, nusc, err, scene_idx, token, augmentation_idx,
                   sample_id, data_id, loads, saved_in, saved_out, boxes,
                   box_idx, pc_points, out_feature, conv>>

\* makedirs, NuScenes(...), then the width == height check, sample_id = 0,
\* data_id = 0
CheckConfig ==
    /\ pc = "start"
    /\ IF args.width = args.height
       THEN size' = args.width /\ pc' = "scene" /\ err' = err
       ELSE size' = size /\ pc' = "raised" /\ err' = "Exception"
    /\ UNCHANGED <<my_sample, args, nusc, scene_idx, token, augmentation_idx,
                   sample_id, data_id, loads, saved_in, saved_out, boxes,
                   box_idx, pc_points, out_feature, conv>>

\* for my_scene in nusc.scene: token = my_scene['first_sample_token']
NextScene ==
    /\ pc = "scene"
    /\ IF scene_idx < Len(nusc)
       THEN /\ scene_idx' = scene_idx + 1
            /\ token' = 1
            /\ pc' = "while"
       ELSE /\ pc' = "done"
            /\ UNCHANGED <<scene_idx, token>>
    /\ UNCHANGED <<my_sample, args, nusc, err, size, augmentation_idx, sample_id,
                   data_id, loads, saved_in, saved_out, boxes, box_idx,
                   pc_points, out_feature, conv>>

\* while(token != ''): load the sample's point cloud and boxes
LoadSample ==
    /\ pc = "while"
    /\ IF token # 0
       THEN /\ my_sample' = token
            /\ \E bl \in DriverBoxLists : boxes' = bl
            /\ pc_points' = DriverCloud
            /\ loads' = loads + 1
            /\ augmentation_idx' = 0
            /\ pc' = "aug"
       ELSE /\ pc' = "scene"
            /\ UNCHANGED <<my_sample, boxes, pc_points, loads, augmentation_idx>>
    /\ UNCHANGED <<args, nusc, err, size, scene_idx, token, sample_id,
                   data_id, saved_in, saved_out, box_idx, out_feature, conv>>

\* for augmentation_idx in range(augmentation_num + 1): copy the frame, on
\* later passes translate and rotate points and boxes by a random amount
\* (any frame of the input set), out_feature = np.zeros(...)
BeginAugmentation ==
    /\ pc = "aug"
    /\ IF augmentation_idx <= args.augmentation_num
       THEN /\ IF augmentation_idx > 0
               THEN \E bl \in DriverBoxLists : boxes' = bl
               ELSE boxes' = boxes
            /\ out_feature' = ZeroGrid(size)
            /\ box_idx' = 0
            /\ pc' = "boxes"
            /\ sample_id' = sample_id
       ELSE /\ sample_id' = sample_id + 1
            /\ pc' = "while"
            /\ UNCHANGED <<boxes, out_feature, box_idx>>
    /\ UNCHANGED <<my_sample, args, nusc, err, size, scene_idx, token, augmentation_idx,
                   data_id, loads, saved_in, saved_out, pc_points, conv>>

\* the body of the box loop for a box whose name classifies as c: the grid
\* after it
RasterizeBox(box, c, sz, points, grid) ==
    LET box_corners == box.corners
        box2d == Box2d(box_corners)
    IN  IF c.kind = "continue"
        THEN grid
        ELSE generate_out_feature(
                 sz, box_corners, box2d, Box2dCenter(box2d), points,
                 HeightPt(box_corners), c.label, box.yaw, grid)

\* one iteration of "for box_idx, box in enumerate(boxes)"
ProcessBox ==
    /\ pc = "boxes"
    /\ box_idx < Len(boxes)
    /\ LET box == boxes[box_idx + 1]
           c == Classify(box.name)
       IN  IF c.kind = "IndexError"
           THEN /\ pc' = "raised"
                /\ err' = "IndexError"
                /\ UNCHANGED <<box_idx, out_feature>>
           ELSE /\ box_idx' = box_idx + 1
                /\ out_feature' = RasterizeBox(box, c, size, pc_points, out_feature)
                /\ UNCHANGED <<pc, err>>
    /\ UNCHANGED <<my_sample, args, nusc, size, scene_idx, token, augmentation_idx,
                   sample_id, data_id, loads, saved_in, saved_out, boxes,
                   pc_points, conv>>

\* my_sample['next']
NextToken == IF my_sample < nusc[scene_idx] THEN my_sample + 1 ELSE 0

\* the box loop is over: generate in_feature, np.save both, token =
\* my_sample['next'], data_id += 1, return if data_id == end_id
SaveData ==
    /\ pc = "boxes"
    /\ box_idx = Len(boxes)
    /\ saved_in' = Append(saved_in, data_id)
    /\ saved_out' = Append(saved_out, data_id)
    /\ token' = NextToken
    /\ data_id' = data_id + 1
    /\ IF Some(data_id + 1) = args.end_id
       THEN pc' = "done" /\ augmentation_idx' = augmentation_idx
       ELSE pc' = "aug" /\ augmentation_idx' = augmentation_idx + 1
    /\ UNCHANGED <<my_sample, args, nusc, err, size, scene_idx, sample_id, loads,
                   boxes, box_idx, pc_points, out_feature, conv>>

Next ==
    \/ CheckConfig
    \/ NextScene
    \/ LoadSample
    \/ BeginAugmentation
    \/ ProcessBox
    \/ SaveData

Spec == Init /\ [][Next]_vars

----------------------------------------------------------------------------
(* One frame: the box loop of create_dataset on a fresh grid, for every    *)
(* list of boxes and point cloud of the input sets (default arguments, a   *)
(* dataset of one sample).                                                 *)

InitRaster ==
    /\ \E sz \in Sizes :
          /\ args = [width |-> sz, height |-> sz, grid_range |-> DefaultRange,
                     end_id |-> None, augmentation_num |-> 0]
          /\ size = sz
          /\ out_feature = ZeroGrid(sz)
    /\ nusc = <<1>>
    /\ pc = "boxes"
    /\ err = "none"
    /\ scene_idx = 1
    /\ token = 1
    /\ my_sample = 1
    /\ augmentation_idx = 0
    /\ sample_id = 0
    /\ data_id = 0
    /\ loads = 1
    /\ saved_in = <<>>
    /\ saved_out = <<>>
    /\ boxes \in BoxLists
    /\ box_idx = 0
    /\ pc_points \in Clouds
    /\ conv = Idle

NextRaster == ProcessBox \/ SaveData

SpecRaster == InitRaster /\ [][NextRaster]_vars

----------------------------------------------------------------------------
(* One conversion of a world coordinate to a cell index (F2I) and back to  *)
(* the cell centre (Pixel2pc), for a grid of n cells over (-range, range]. *)

InitIndexer ==
    /\ \E r \in GridRanges, n \in 1..(2 * MaxSize) :
        \E v \in -(r + 2)..(r + 2) :
          conv = [stage |-> "val", val |-> v, range |-> r, n |-> n,
                  idx |-> 0, centre |-> QI(0)]
    /\ args = [width |-> MaxSize, height |-> MaxSize,
               grid_range |-> DefaultRange, end_id |-> None,
               augmentation_num |-> 0]
    /\ nusc = <<1>>
    /\ pc = "start"
    /\ err = "none"
    /\ size = 0
    /\ scene_idx = 0
    /\ token = 0
    /\ my_sample = 0
    /\ augmentation_idx = 0
    /\ sample_id = 0
    /\ data_id = 0
    /\ loads = 0
    /\ saved_in = <<>>
    /\ saved_out = <<>>
    /\ boxes = <<>>
    /\ box_idx = 0
    /\ pc_points = <<>>
    /\ out_feature = <<>>

\* idx = F2I(val, range, 0.5 * n / range)
ConvertF2I ==
    /\ conv.stage = "val"
    /\ conv' = [conv EXCEPT !.stage = "idx",
                            !.idx = F2I(conv.val, conv.range,
                                        Q(conv.n, 2 * conv.range))]
    /\ UNCHANGED <<args, nusc, pc, err, size, scene_idx, token, my_sample,
                   augmentation_idx, sample_id, data_id, loads, saved_in,
                   saved_out, boxes, box_idx, pc_points, out_feature>>

\* centre = Pixel2pc(idx, n, range)
ConvertPixel2pc ==
    /\ conv.stage = "idx"
    /\ conv' = [conv EXCEPT !.stage = "centre",
                            !.centre = Pixel2pc(conv.idx, conv.n, conv.range)]
    /\ UNCHANGED <<args, nusc, pc, err, size, scene_idx, token, my_sample,
                   augmentation_idx, sample_id, data_id, loads, saved_in,
                   saved_out, boxes, box_idx, pc_points, out_feature>>

NextIndexer == ConvertF2I \/ ConvertPixel2pc

SpecIndexer == InitIndexer /\ [][NextIndexer]_vars

----------------------------------------------------------------------------
(* Vocabulary of the properties.                                           *)

Cells(sz) == (0..(sz - 1)) \X (0..(sz - 1))

\* cell (i, j) of a grid
CellAt(grid, i, j) == grid[i + 1][j + 1]

\* the world coordinate of the centre of cell i of a grid of sz cells over
\* the range r: r - (i + 0.5) * (2 r / sz)
CellCentre(i, sz, r) == Q(r * sz - (2 * i + 1) * r, sz)

\* the centre of cell (i, j), for the range r, is in the footprint of box
\* b: its projections on the two footprint edges from the reference corner
\* are within the edges (all terms multiplied by sz)
InFootprint(b, i, j, sz, r) ==
    LET f == Box2d(b.corners)
        e1 == <<f[2][1] - f[1][1], f[2][2] - f[1][2]>>
        e2 == <<f[4][1] - f[1][1], f[4][2] - f[1][2]>>
        vx == r * sz - (2 * i + 1) * r - sz * f[1][1]
        vy == r * sz - (2 * j + 1) * r - sz * f[1][2]
        p1 == e1[1] * vx + e1[2] * vy
        p2 == e2[1] * vx + e2[2] * vy
    IN  /\ 0 <= p1 /\ p1 <= sz * (e1[1] * e1[1] + e1[2] * e1[2])
        /\ 0 <= p2 /\ p2 <= sz * (e2[1] * e2[1] + e2[2] * e2[2])

\* the classification table
ClassId(name) ==
    LET t == Split(name, ".")
        second(S) == Len(t) >= 2 /\ \E w \in S : t[2] = <<w>>
    IN  CASE t[1] = <<"vehicle">> /\ second({"car"}) -> 1
          [] t[1] = <<"vehicle">>
               /\ second({"bus", "truck", "construction", "emergency", "trailer"}) -> 2
          [] t[1] = <<"vehicle">> /\ second({"bicycle", "motorcycle"}) -> 3
          [] t[1] = <<"human">> -> 4
          [] OTHER -> 0

Enclosed(b) == NumPoints(b.corners, pc_points)

\* the box is one the code rasterizes: its name passes the classification
\* chain and it encloses at least 4 points
Rasterized(b) == Classify(b.name).kind = "label" /\ Enclosed(b) >= 4

\* the boxes processed so far that the code rasterized
RasterizedSoFar == {k \in 1..box_idx : Rasterized(boxes[k])}

\* those of the boxes R that wrote cell (i, j)
Writers(R, i, j) == {k \in R : InFootprint(boxes[k], i, j, size, FixedRange)}

SetMax(S) == CHOOSE m \in S : \A n \in S : n <= m

InBoxLoop == pc = "boxes" /\ size > 0

\* this step is one iteration of the box loop
BoxStep == pc = "boxes" /\ box_idx' = box_idx + 1

QMax(a, b) == IF QLess(a, b) THEN b ELSE a

\* v = d * -1 * min(x_scale, y_scale), each axis scale being ml / distance
\* when the distance on that axis exceeds ml and 1 otherwise
OffsetIs(v, d, dx, dy, ml) ==
    QMul(v, QMax(ml, QMax(QAbs(dx), QAbs(dy)))) = QMul(QMul(d, QI(-1)), ml)

\* channels 1 and 2 of cell (i, j), written by box b, are the offsets
\* clamped at ml
OffsetsClampedAt(b, i, j, ml) ==
    LET c2 == Box2dCenter(Box2d(b.corners))
        dx == QSub(c2[1], CellCentre(i, size, FixedRange))
        dy == QSub(c2[2], CellCentre(j, size, FixedRange))
        cell == CellAt(out_feature, i, j)
    IN  /\ OffsetIs(cell[1], dx, dx, dy, ml)
        /\ OffsetIs(cell[2], dy, dx, dy, ml)
        /\ QLeq(QAbs(cell[1]), ml)
        /\ QLeq(QAbs(cell[2]), ml)

RECURSIVE Replay(_, _)
\* the grid after the boxes bs with every box of class id 0 removed
Replay(bs, k) ==
    IF k = 0 THEN ZeroGrid(size)
    ELSE IF ClassId(bs[k].name) = 0 THEN Replay(bs, k - 1)
    ELSE RasterizeBox(bs[k], Classify(bs[k].name), size, pc_points,
                      Replay(bs, k - 1))

IdSeq(n) == [k \in 1..n |-> k - 1]

RECURSIVE Sum(_)
Sum(q) == IF q = <<>> THEN 0 ELSE Head(q) + Sum(Tail(q))

\* the (sample, augmentation pass) pairs of the run
TotalData == Sum(nusc) * (args.augmentation_num + 1)

----------------------------------------------------------------------------
(* Properties.                                                             *)

\* C1: when a box of a recognised class enclosing at least 4 points is
\* rasterized, every cell of the grid whose centre is in the footprint gets
\* channels 0 and 3 set to 1, every other cell keeps its 8 channels, the
\* grid keeps its shape and no error is raised (also for a box that lies
\* outside the grid range).
C1_FootprintCellsWritten ==
    [][(BoxStep /\ ClassId(boxes[box_idx + 1].name) \in 1..4
                /\ Enclosed(boxes[box_idx + 1]) >= 4)
       => /\ DOMAIN out_feature' = 1..size
          /\ \A i \in 1..size : DOMAIN out_feature'[i] = 1..size
          /\ err' = "none"
          /\ \A ij \in Cells(size) :
                IF InFootprint(boxes[box_idx + 1], ij[1], ij[2], size, FixedRange)
                THEN /\ CellAt(out_feature', ij[1], ij[2])[0] = 1
                     /\ CellAt(out_feature', ij[1], ij[2])[3] = 1
                ELSE CellAt(out_feature', ij[1], ij[2])
                        = CellAt(out_feature, ij[1], ij[2])]_vars

\* a rasterized box entirely beyond the grid range, then a rasterized box
\* across the grid edge that wrote some cells and left others
C1_Witness ==
    /\ InBoxLoop /\ box_idx = 2
    /\ ClassId(boxes[1].name) \in 1..4 /\ Enclosed(boxes[1]) >= 4
    /\ \A k \in 1..4 : Box2d(boxes[1].corners)[k][1] > FixedRange
    /\ ClassId(boxes[2].name) \in 1..4 /\ Enclosed(boxes[2]) >= 4
    /\ \E k \in 1..4 : Box2d(boxes[2].corners)[k][1] > FixedRange
    /\ \E ij \in Cells(size) : CellAt(out_feature, ij[1], ij[2])[0] = 1
    /\ \E ij \in Cells(size) : CellAt(out_feature, ij[1], ij[2]) = ZeroCell

\* C2: the grid starts all-zero and the last writer wins: a cell no box
\* wrote is zero, and a cell in the footprint of rasterized boxes holds, in
\* all 8 channels, the values of the latest of them in annotation order.
C2_LastWriterWins ==
    InBoxLoop =>
        LET R == RasterizedSoFar
        IN  \A ij \in Cells(size) :
            LET K == Writers(R, ij[1], ij[2])
                b == boxes[SetMax(K)]
                cell == CellAt(out_feature, ij[1], ij[2])
            IN  IF K = {}
                THEN cell = ZeroCell
                ELSE /\ cell[0] = 1 /\ cell[3] = 1
                     /\ cell[4] = Classify(b.name).label
                     /\ cell[5] = Cos45(2 * NormalizedYaw(b.yaw))
                     /\ cell[6] = Sin45(2 * NormalizedYaw(b.yaw))
                     /\ cell[7] = HeightPt(b.corners)
                     /\ OffsetsClampedAt(b, ij[1], ij[2], MaxLength(size))

\* two rasterized boxes of different classes and headings share a cell
C2_Witness ==
    /\ InBoxLoop /\ box_idx = 2
    /\ ClassId(boxes[1].name) # ClassId(boxes[2].name)
    /\ boxes[1].yaw # boxes[2].yaw
    /\ \E ij \in Cells(size) :
          /\ Writers(RasterizedSoFar, ij[1], ij[2]) = {1, 2}
          /\ CellAt(out_feature, ij[1], ij[2])[4] = ClassId(boxes[2].name)

\* C3: a box of class id 0 is never written: the grid is the one obtained
\* with the class-0 boxes removed, and no cell has channel 0 = 1 with
\* channel 4 = 0.
C3_ClassZeroNeverWritten ==
    InBoxLoop =>
        /\ out_feature = Replay(boxes, box_idx)
        /\ \A ij \in Cells(size) :
              ~ (CellAt(out_feature, ij[1], ij[2])[0] = 1
                 /\ CellAt(out_feature, ij[1], ij[2])[4] = 0)

\* C4: a box enclosing fewer than 4 points leaves every cell and channel
\* unchanged, whatever its class id; a frame whose only box encloses 2
\* points ends with an all-zero grid.
C4_SparseBoxUnchanged ==
    [][(BoxStep /\ Enclosed(boxes[box_idx + 1]) < 4)
       => /\ out_feature' = out_feature
          /\ (Len(boxes) = 1 /\ Enclosed(boxes[1]) = 2)
                => out_feature' = ZeroGrid(size)]_vars

\* a frame whose only box, of class 2, encloses 2 points was processed
C4_Witness ==
    /\ InBoxLoop /\ Len(boxes) = 1 /\ box_idx = 1
    /\ Classify(boxes[1].name).kind = "label"
    /\ ClassId(boxes[1].name) = 2
    /\ Enclosed(boxes[1]) = 2
    /\ \E ij \in Cells(size) : InFootprint(boxes[1], ij[1], ij[2], size, FixedRange)
    /\ out_feature = ZeroGrid(size)

\* C5: classification is total and follows the table: no category string
\* makes it fail, and every box processed got the class id of the table.
C5_ClassifyTotal ==
    /\ err # "IndexError"
    /\ \A k \in 1..box_idx :
          Classify(boxes[k].name).kind # "IndexError"
          /\ Classify(boxes[k].name).label = ClassId(boxes[k].name)

\* C6: with width # height the run raises before any frame is processed
\* (nothing loaded, rasterized or saved); with width = height the
\* configuration error is not raised.
C6_SquareGridOrAbort ==
    /\ args.width # args.height =>
          /\ pc \in {"start", "raised"}
          /\ pc = "raised" => err = "Exception"
          /\ loads = 0 /\ boxes = <<>> /\ pc_points = <<>>
          /\ out_feature = <<>>
          /\ saved_in = <<>> /\ saved_out = <<>>
    /\ args.width = args.height => err # "Exception" /\ pc # "raised"

C6_Witness ==
    args.width # args.height /\ pc = "raised" /\ err = "Exception"

\* C7: for -R < v <= R the index F2I(v, R, 0.5 * N / R) is in [0, N - 1]
\* and the centre of that cell is within one cell width 2R / N of v.
C7_RoundTrip ==
    (conv.stage # "idle" /\ -conv.range < conv.val /\ conv.val <= conv.range)
    => /\ conv.stage \in {"idx", "centre"} => conv.idx \in 0..(conv.n - 1)
       /\ conv.stage = "centre" =>
             QLeq(QAbs(QSub(conv.centre, QI(conv.val))),
                  Q(2 * conv.range, conv.n))

\* the smallest coordinate of the range maps to the last cell
C7_Witness ==
    /\ conv.stage = "centre" /\ conv.n > 1
    /\ conv.val = 1 - conv.range
    /\ conv.idx = conv.n - 1

\* C8: end_id = n >= 0 with at least n data available: the run returns
\* after saving exactly n pairs with ids 0..n-1; end_id = None: one pair per
\* (sample, augmentation pass).
C8_EndIdCountsData ==
    pc = "done" =>
        /\ saved_in = saved_out
        /\ args.end_id = None => saved_out = IdSeq(TotalData)
        /\ \A n \in 0..TotalData :
              args.end_id = Some(n) => saved_out = IdSeq(n)

\* C9: the rasterizer uses the configured grid_range: the cells written are
\* those whose centre, at the range the grid was built with, is in the
\* footprint of a rasterized box.
C9_RasterUsesGridRange ==
    InBoxLoop =>
        LET R == RasterizedSoFar
        IN  \A ij \in Cells(size) :
                CellAt(out_feature, ij[1], ij[2])[0] = 1
                <=> \E k \in R :
                       InFootprint(boxes[k], ij[1], ij[2], size, args.grid_range)

\* C10 as stated: the offsets are clamped at max_length = 2 * (R / size).
C10_OffsetsClampedAtOneCell ==
    InBoxLoop =>
        LET R == RasterizedSoFar
        IN  \A ij \in Cells(size) :
            LET K == Writers(R, ij[1], ij[2])
            IN  K # {} => OffsetsClampedAt(boxes[SetMax(K)], ij[1], ij[2],
                                           Q(2 * FixedRange, size))

\* C10 amended: the offsets are clamped at max_length = 2 * res, two cell
\* widths of the fixed range 70: 4 * 70 / size.
C10_OffsetsClampedAtTwoCells ==
    InBoxLoop =>
        LET R == RasterizedSoFar
        IN  \A ij \in Cells(size) :
            LET K == Writers(R, ij[1], ij[2])
            IN  K # {} => OffsetsClampedAt(boxes[SetMax(K)], ij[1], ij[2],
                                           Q(4 * FixedRange, size))

\* a written cell further than two cell widths from the box centre, and a
\* written cell between one and two cell widths from it
C10_Witness ==
    /\ InBoxLoop /\ box_idx = 1 /\ Rasterized(boxes[1])
    /\ LET c2 == Box2dCenter(Box2d(boxes[1].corners))
           dist(i) == QAbs(QSub(c2[1], CellCentre(i, size, FixedRange)))
       IN  /\ \E ij \in Cells(size) :
                /\ Writers({1}, ij[1], ij[2]) = {1}
                /\ QLess(Q(4 * FixedRange, size), dist(ij[1]))
                /\ QAbs(CellAt(out_feature, ij[1], ij[2])[1]) = Q(4 * FixedRange, size)
           /\ \E ij \in Cells(size) :
                /\ Writers({1}, ij[1], ij[2]) = {1}
                /\ QLess(Q(2 * FixedRange, size), dist(ij[1]))
                /\ QLess(dist(ij[1]), Q(4 * FixedRange, size))

====
